---- MODULE Spec2Model ----
(***************************************************************************)
(* Model of ArchUniXchange/1.ArchiCADUniqueIDAssigner.py:                  *)
(* SmartUniqueIDAssigner (classification of the existing Element IDs,      *)
(* generation of new IDs, write-back to the host and the report).          *)
(*                                                                         *)
(* Strings are sequences of one-character strings, so that str.strip()     *)
(* and the format f"{prefix}-{counter:03d}" are computed, not assumed.     *)
(* A Python dict is a sequence of [k, v] records in insertion order.       *)
(***************************************************************************)
EXTENDS Integers, Sequences, FiniteSets, TLC

VARIABLES
    pc,                 \* position of the program
    entry,              \* "main": assign_unique_ids_to_all_elements; "direct": the two reconciler methods called on given data
    host,               \* the host's elements: sequence of [guid, type, id]
    elements,           \* list of [guid, type] (get_all_elements_fast's result)
    existing_ids,       \* dict guid -> id string
    analysis,           \* analyze_existing_ids' result
    elements_by_type,   \* dict type -> list of [guid, type]
    all_reserved_ids,   \* set of id strings
    new_id_mapping,     \* dict guid -> new id
    ti,                 \* index of the type being processed in elements_by_type
    ei,                 \* index of the element being processed in the type's list
    counter,            \* the current type's counter
    call,               \* "first", or "second" when the reconciler runs again on the same data (SpecDet)
    hash_seed,          \* this process's str hash seed: decides the iteration order of a set
    prev_mapping,       \* the mapping the previous call returned (SpecDet, SpecTwice)
    prev_run,           \* the outcomes and fetch errors of the previous run (SpecTwice), <<>> if none
    fetch_errors,       \* the host calls of the data fetch that raised in this run
    wi,                 \* assign_ids_super_fast: i, the number of the mapping entry being written
    success_count,
    permission_denied_count,
    other_errors,
    failed_elements,    \* list of [guid, new_id, reason]
    assignment_results, \* what assign_ids_super_fast returned, <<>> before it returns
    outcomes,           \* what happened to each mapping entry's write, by entry number
    writes,             \* the guids of the SetPropertyValuesOfElements calls the host received
    report,             \* the report's result line, <<>> before the report is made
    ret,                \* <<b>> once the entry function returned b, <<>> before
    project,            \* the host project's property definitions and classification systems
    properties_data,    \* extract_to_csv: dict guid -> dict column -> value
    classifications_data, \* extract_to_csv: dict guid -> dict column -> value
    sorted_columns,     \* the header row of the file, <<>> while no file is written
    csv_rows            \* the data rows of the file, each a dict column -> value

\* assign_ids_super_fast's locals and what the host saw of it
wbVars == <<wi, success_count, permission_denied_count, other_errors, failed_elements,
            assignment_results, outcomes, writes>>

\* the rest of assign_unique_ids_to_all_elements' state
runVars == <<fetch_errors, report, ret>>

\* the state of the extractor script
csvVars == <<project, properties_data, classifications_data, sorted_columns, csv_rows>>

vars == <<pc, entry, host, elements, existing_ids, analysis, elements_by_type,
          all_reserved_ids, new_id_mapping, ti, ei, counter, call, hash_seed,
          prev_mapping, prev_run, wbVars, runVars, csvVars>>

----------------------------------------------------------------------------
(* Strings *)

WhiteSpace == {" "}

DigitChar == <<"0", "1", "2", "3", "4", "5", "6", "7", "8", "9">>

RECURSIVE LStrip(_)
LStrip(s) == IF s # <<>> /\ Head(s) \in WhiteSpace THEN LStrip(Tail(s)) ELSE s

RECURSIVE RStrip(_)
RStrip(s) ==
    IF s # <<>> /\ s[Len(s)] \in WhiteSpace THEN RStrip(SubSeq(s, 1, Len(s) - 1)) ELSE s

\* str.strip()
Strip(s) == RStrip(LStrip(s))

\* str(n) for n >= 0
RECURSIVE Digits(_)
Digits(n) ==
    IF n < 10 THEN <<DigitChar[n + 1]>>
    ELSE Digits(n \div 10) \o <<DigitChar[(n % 10) + 1]>>

RECURSIVE ZeroPad(_, _)
ZeroPad(s, width) == IF Len(s) < width THEN ZeroPad(<<"0">> \o s, width) ELSE s

PadWidth == 3

\* f"{counter:03d}"
Format03d(n) == ZeroPad(Digits(n), PadWidth)

\* the candidate with the format {counter} in place of {counter:03d}
CandidateNoPad(prefix, n) == prefix \o <<"-">> \o Digits(n)

\* f"{prefix}-{counter:03d}"
Candidate(prefix, n) == prefix \o <<"-">> \o Format03d(n)

----------------------------------------------------------------------------
(* Python dicts, in insertion order *)

DictKeys(d) == {d[i].k : i \in 1..Len(d)}

DictHas(d, key) == \E i \in 1..Len(d) : d[i].k = key

DictGet(d, key) == d[CHOOSE i \in 1..Len(d) : d[i].k = key].v

\* d[key] = val: a known key keeps its place
DictSet(d, key, val) ==
    IF DictHas(d, key)
    THEN [i \in 1..Len(d) |-> IF d[i].k = key THEN [k |-> key, v |-> val] ELSE d[i]]
    ELSE Append(d, [k |-> key, v |-> val])

----------------------------------------------------------------------------
(* __init__: the prefix table and the element types asked of the host *)

element_prefixes ==
    <<[k |-> "Wall", v |-> <<"W">>],
      [k |-> "Slab", v |-> <<"S">>],
      [k |-> "Beam", v |-> <<"B">>],
      [k |-> "Column", v |-> <<"C">>],
      [k |-> "Roof", v |-> <<"R">>],
      [k |-> "CurtainWall", v |-> <<"C", "W">>],
      [k |-> "Stair", v |-> <<"S", "T">>],
      [k |-> "Railing", v |-> <<"R", "L">>],
      [k |-> "Door", v |-> <<"D">>],
      [k |-> "Window", v |-> <<"W", "I", "N">>],
      [k |-> "Skylight", v |-> <<"S", "K">>],
      [k |-> "Zone", v |-> <<"Z">>],
      [k |-> "Mesh", v |-> <<"M">>],
      [k |-> "Morph", v |-> <<"M", "O">>],
      [k |-> "Shell", v |-> <<"S", "H">>],
      [k |-> "Object", v |-> <<"O">>]>>

available_element_types ==
    <<"Wall", "Slab", "Beam", "Column", "Roof", "CurtainWall", "Stair", "Railing",
      "Door", "Window", "Skylight", "Zone", "Mesh", "Morph", "Shell", "Object">>

\* a lookup without the default: a type absent from the table yields no prefix
PrefixNoFallback(element_type) ==
    IF DictHas(element_prefixes, element_type)
    THEN DictGet(element_prefixes, element_type)
    ELSE <<>>

\* self.element_prefixes.get(element_type, 'GEN')
Prefix(element_type) ==
    IF DictHas(element_prefixes, element_type)
    THEN DictGet(element_prefixes, element_type)
    ELSE <<"G", "E", "N">>

----------------------------------------------------------------------------
(* analyze_existing_ids *)

\* not element_id or element_id.strip() == ""
IsEmptyId(element_id) == element_id = <<>> \/ Strip(element_id) = <<>>

\* element_id.strip()
CleanId(element_id) == Strip(element_id)

\* the indices of a list at which its value occurs for the first time, ascending
FirstOccurrences(list) ==
    SelectSeq([i \in 1..Len(list) |-> i],
              LAMBDA i : \A j \in 1..(i - 1) : list[j] # list[i])

\* empty_ids: the guids whose id is empty, in the dict's order
EmptyIds(ids) ==
    LET empty == SelectSeq(ids, LAMBDA item : IsEmptyId(item.v))
    IN  [i \in 1..Len(empty) |-> empty[i].k]

\* id_counts: clean id -> list of the guids holding it; the keys in the order in
\* which the loop meets them first, each list in the order of the loop
IdCounts(ids) ==
    LET held == SelectSeq(ids, LAMBDA item : ~IsEmptyId(item.v))
        clean == [i \in 1..Len(held) |-> CleanId(held[i].v)]
        firsts == FirstOccurrences(clean)
        GuidsOf(clean_id) ==
            LET same == SelectSeq([i \in 1..Len(held) |-> i], LAMBDA i : clean[i] = clean_id)
            IN  [m \in 1..Len(same) |-> held[same[m]].k]
    IN  [n \in 1..Len(firsts) |-> [k |-> clean[firsts[n]], v |-> GuidsOf(clean[firsts[n]])]]

\* the test with >= 1 in place of > 1
IsDuplicatedFromOne(element_guids) == Len(element_guids) >= 1

\* len(element_guids) > 1
IsDuplicated(element_guids) == Len(element_guids) > 1

\* duplicate_ids: guid -> the duplicated id it holds
RECURSIVE DuplicateIds(_)
DuplicateIds(id_counts) ==
    IF id_counts = <<>> THEN <<>>
    ELSE LET element_id == Head(id_counts).k
             element_guids == Head(id_counts).v
         IN  (IF IsDuplicated(element_guids)
              THEN [i \in 1..Len(element_guids) |-> [k |-> element_guids[i], v |-> element_id]]
              ELSE <<>>) \o DuplicateIds(Tail(id_counts))

\* unique_ids, had the loop added the duplicated ids too
UniqueIdsAll(id_counts) == DictKeys(id_counts)

\* unique_ids: the ids held by exactly one element
UniqueIds(id_counts) ==
    {id_counts[i].k : i \in {j \in 1..Len(id_counts) : ~IsDuplicated(id_counts[j].v)}}

SeqToSet(s) == {s[i] : i \in 1..Len(s)}

\* elements_needing_new_ids without the holders of duplicates
ElementsNeedingNewIdsEmptyOnly(empty_ids, duplicate_ids) == SeqToSet(empty_ids)

\* set(empty_ids + list(duplicate_ids.keys()))
ElementsNeedingNewIds(empty_ids, duplicate_ids) ==
    SeqToSet(empty_ids) \cup DictKeys(duplicate_ids)

analyze_existing_ids(ids) ==
    LET id_counts == IdCounts(ids)
        empty_ids == EmptyIds(ids)
        duplicate_ids == DuplicateIds(id_counts)
        unique_ids == UniqueIds(id_counts)
    IN  [total_elements |-> Len(ids),
         unique_ids |-> Cardinality(unique_ids),
         empty_ids |-> Len(empty_ids),
         duplicate_count |-> Len(duplicate_ids),
         elements_needing_new_ids |-> ElementsNeedingNewIds(empty_ids, duplicate_ids),
         existing_unique_ids |-> unique_ids,
         duplicate_elements |-> duplicate_ids]

NoAnalysis ==
    [total_elements |-> 0, unique_ids |-> 0, empty_ids |-> 0, duplicate_count |-> 0,
     elements_needing_new_ids |-> {}, existing_unique_ids |-> {},
     duplicate_elements |-> <<>>]

----------------------------------------------------------------------------
(* generate_new_ids_for_problem_elements *)

\* the order in which a set of guids is iterated under the process's hash seed
RECURSIVE SetOrder(_, _)
SetOrder(S, seed) ==
    IF S = {} THEN <<>>
    ELSE LET x == IF seed = 0 THEN CHOOSE y \in S : \A z \in S : y <= z
                  ELSE CHOOSE y \in S : \A z \in S : y >= z
         IN  <<x>> \o SetOrder(S \ {x}, seed)

\* problem_elements, had it been built by iterating the set elements_needing_new_ids
ProblemElementsFromSet(elems, needing) ==
    LET order == SetOrder(needing \cap {elems[i].guid : i \in 1..Len(elems)}, hash_seed)
    IN  [i \in 1..Len(order) |->
            elems[CHOOSE j \in 1..Len(elems) : elems[j].guid = order[i]]]

\* problem_elements: the elements of the list whose guid needs a new id, in list order
ProblemElements(elems, needing) ==
    SelectSeq(elems, LAMBDA elem_data : elem_data.guid \in needing)

\* elements_by_type = defaultdict(list): the types in the order in which
\* problem_elements meets them first, each list in the order of problem_elements
GroupByType(elems) ==
    LET types == [i \in 1..Len(elems) |-> elems[i].type]
        firsts == FirstOccurrences(types)
    IN  [n \in 1..Len(firsts) |->
            [k |-> types[firsts[n]],
             v |-> SelectSeq(elems, LAMBDA elem_data : elem_data.type = types[firsts[n]])]]

\* all_reserved_ids, had it started empty
InitialReservedNone(existing_unique_ids) == {}

\* all_reserved_ids = set(existing_unique_ids)
InitialReserved(existing_unique_ids) == existing_unique_ids

\* a search that advances the counter before it looks at the candidate
RECURSIVE NextFreeAfter(_, _, _)
NextFreeAfter(prefix, c, reserved) ==
    IF Candidate(prefix, c + 1) \in reserved THEN NextFreeAfter(prefix, c + 1, reserved)
    ELSE c + 1

\* while f"{prefix}-{counter:03d}" in all_reserved_ids: counter += 1
RECURSIVE NextFree(_, _, _)
NextFree(prefix, c, reserved) ==
    IF Candidate(prefix, c) \in reserved THEN NextFree(prefix, c + 1, reserved) ELSE c

\* counter = 1 at the start of a type
CounterStart == 1

\* the counter, had it been set back to 1 after an assignment
CounterAfterReset(c) == CounterStart

\* counter += 1 after an assignment
CounterAfter(c) == c + 1

\* a loop that forgets to reserve the identifier it assigned
ReservedAddNothing(reserved, new_id) == reserved

\* all_reserved_ids.add(new_id)
ReservedAdd(reserved, new_id) == reserved \cup {new_id}

\* lines 204-228: the early return, or the set-up of the loops
GenerateBegin ==
    /\ pc = "generate"
    /\ IF analysis.elements_needing_new_ids = {}
       THEN /\ new_id_mapping' = <<>>
            /\ pc' = "generated"
            /\ UNCHANGED <<elements_by_type, all_reserved_ids, ti>>
       ELSE /\ elements_by_type' =
                 GroupByType(ProblemElements(elements, analysis.elements_needing_new_ids))
            /\ all_reserved_ids' = InitialReserved(analysis.existing_unique_ids)
            /\ new_id_mapping' = <<>>
            /\ ti' = 1
            /\ pc' = IF elements_by_type' = <<>> THEN "generated" ELSE "gen_type"
    /\ UNCHANGED <<csvVars, wbVars, runVars, entry, host, elements, existing_ids, analysis, ei, counter, call,
                   hash_seed, prev_mapping, prev_run>>

\* lines 230-238: the next type, its prefix and its first free counter
GenerateType ==
    /\ pc = "gen_type"
    /\ ti <= Len(elements_by_type)
    /\ counter' = NextFree(Prefix(elements_by_type[ti].k), CounterStart, all_reserved_ids)
    /\ ei' = 1
    /\ pc' = "gen_elem"
    /\ UNCHANGED <<csvVars, wbVars, runVars, entry, host, elements, existing_ids, analysis, elements_by_type,
                   all_reserved_ids, new_id_mapping, ti, call, hash_seed, prev_mapping, prev_run>>

\* lines 240-252: one element of the current type
GenerateElement ==
    /\ pc = "gen_elem"
    /\ ei <= Len(elements_by_type[ti].v)
    /\ LET type_elements == elements_by_type[ti].v
           prefix == Prefix(elements_by_type[ti].k)
           element_guid == type_elements[ei].guid
           c == NextFree(prefix, counter, all_reserved_ids)
           new_id == Candidate(prefix, c)
       IN  /\ new_id_mapping' = DictSet(new_id_mapping, element_guid, new_id)
           /\ all_reserved_ids' = ReservedAdd(all_reserved_ids, new_id)
           /\ counter' = CounterAfter(c)
           /\ IF ei < Len(type_elements)
              THEN /\ ei' = ei + 1
                   /\ UNCHANGED <<ti, pc>>
              ELSE /\ ei' = 1
                   /\ ti' = ti + 1
                   /\ pc' = IF ti < Len(elements_by_type) THEN "gen_type" ELSE "generated"
    /\ UNCHANGED <<csvVars, wbVars, runVars, entry, host, elements, existing_ids, analysis, elements_by_type,
                   call, hash_seed, prev_mapping, prev_run>>

\* analyze_existing_ids(existing_ids)
Analyze ==
    /\ pc = "analyze"
    /\ analysis' = analyze_existing_ids(existing_ids)
    /\ pc' = "generate"
    /\ UNCHANGED <<csvVars, wbVars, runVars, entry, host, elements, existing_ids, elements_by_type,
                   all_reserved_ids, new_id_mapping, ti, ei, counter, call, hash_seed,
                   prev_mapping, prev_run>>

----------------------------------------------------------------------------
(* The reconciler called on given data: analyze_existing_ids, then          *)
(* generate_new_ids_for_problem_elements                                   *)

MaxElems == 3

\* the type tags of the inputs: a mapped type, and two types the prefix table does not know
InputTypes == {"Wall", "Foo", "Bar"}

\* the existing identifiers of the inputs
InputIds ==
    { <<>>, <<" ">>,
      <<"W", "-", "0", "0", "1">>, <<"W", "-", "0", "0", "1", " ">>,
      <<"W", "-", "0", "0", "2">>,
      <<"G", "E", "N", "-", "0", "0", "1">> }

\* spec.md section 8: [(E1,Wall,"W-001"), (E2,Wall,"W-001"), (E3,Wall,"W-005"), (E4,Beam,"")]
ExampleInput ==
    <<[guid |-> 1, type |-> "Wall", id |-> <<"W", "-", "0", "0", "1">>],
      [guid |-> 2, type |-> "Wall", id |-> <<"W", "-", "0", "0", "1">>],
      [guid |-> 3, type |-> "Wall", id |-> <<"W", "-", "0", "0", "5">>],
      [guid |-> 4, type |-> "Beam", id |-> <<>>]>>

\* the input built from a choice of types and identifiers for elements 1..n
InputOf(n, ty, id) == [i \in 1..n |-> [guid |-> i, type |-> ty[i], id |-> id[i]]]

ElementsOf(input) == [i \in 1..Len(input) |-> [guid |-> input[i].guid, type |-> input[i].type]]
ExistingIdsOf(input) == [i \in 1..Len(input) |-> [k |-> input[i].guid, v |-> input[i].id]]

\* the extractor script has not run
InitNoExtract ==
    /\ properties_data = <<>>
    /\ classifications_data = <<>>
    /\ sorted_columns = <<>>
    /\ csv_rows = <<>>

\* a project without property definitions and classification systems
NoProject == [properties |-> <<>>, systems |-> <<>>]

\* nothing written yet
InitWriteBack ==
    /\ wi = 1
    /\ success_count = 0
    /\ permission_denied_count = 0
    /\ other_errors = 0
    /\ failed_elements = <<>>
    /\ assignment_results = <<>>
    /\ outcomes = <<>>
    /\ writes = <<>>

InitDirect(input, seed) ==
    /\ pc = "analyze"
    /\ entry = "direct"
    /\ host = <<>>
    /\ elements = ElementsOf(input)
    /\ existing_ids = ExistingIdsOf(input)
    /\ analysis = NoAnalysis
    /\ elements_by_type = <<>>
    /\ all_reserved_ids = {}
    /\ new_id_mapping = <<>>
    /\ ti = 1
    /\ ei = 1
    /\ counter = CounterStart
    /\ call = "first"
    /\ hash_seed = seed
    /\ prev_mapping = <<>>
    /\ prev_run = <<>>
    /\ InitWriteBack
    /\ project = NoProject
    /\ InitNoExtract
    /\ fetch_errors = {}
    /\ report = <<>>
    /\ ret = <<>>

\* the str hash seeds a process may run under
HashSeeds == {0, 1}

InitRec ==
    \/ InitDirect(ExampleInput, 0)
    \/ \E n \in 0..MaxElems :
          \E ty \in [1..n -> InputTypes], id \in [1..n -> InputIds] :
              InitDirect(InputOf(n, ty, id), 0)

NextRec == Analyze \/ GenerateBegin \/ GenerateType \/ GenerateElement

SpecRec == InitRec /\ [][NextRec]_vars

(* The same two methods run again, in a new process, on the same data *)

Recall ==
    /\ pc = "generated"
    /\ entry = "direct"
    /\ call = "first"
    /\ prev_mapping' = new_id_mapping
    /\ call' = "second"
    /\ hash_seed' \in HashSeeds
    /\ pc' = "analyze"
    /\ analysis' = NoAnalysis
    /\ elements_by_type' = <<>>
    /\ all_reserved_ids' = {}
    /\ new_id_mapping' = <<>>
    /\ ti' = 1
    /\ ei' = 1
    /\ counter' = CounterStart
    /\ UNCHANGED <<csvVars, wbVars, runVars, entry, host, elements, existing_ids, prev_run>>

NextDet == NextRec \/ Recall

(* The reconciler on more than a thousand elements of one type *)

NBig == 1001

\* nobody holds an identifier, or the first element alone holds "W-1000" or "W-100"
BigFirstIds == { <<>>, <<"W", "-", "1", "0", "0", "0">>, <<"W", "-", "1", "0", "0">> }

BigInput(first_id) ==
    [i \in 1..NBig |-> [guid |-> i, type |-> "Wall", id |-> IF i = 1 THEN first_id ELSE <<>>]]

InitBig == \E first_id \in BigFirstIds : InitDirect(BigInput(first_id), 0)

SpecBig == InitBig /\ [][NextRec]_vars

SpecDet == InitRec /\ [][NextDet]_vars

----------------------------------------------------------------------------
(* assign_unique_ids_to_all_elements: fetch, classify, generate, write back, report *)

\* GetElementsByType(elem_type): the host's elements of the type, in the host's order
ElementsOfType(elem_type) ==
    LET found == SelectSeq(host, LAMBDA h : h.type = elem_type)
    IN  [i \in 1..Len(found) |-> [guid |-> found[i].guid, type |-> elem_type]]

\* get_all_elements_fast's loop over the types; a type whose call raises is skipped
RECURSIVE FetchAll(_, _)
FetchAll(types, failing) ==
    IF types = <<>> THEN <<>>
    ELSE (IF Head(types) \in failing THEN <<>> ELSE ElementsOfType(Head(types)))
         \o FetchAll(Tail(types), failing)

\* the id the host holds for a guid
HostId(g) == host[CHOOSE i \in 1..Len(host) : host[i].guid = g].id

\* get_existing_ids_bulk's result: every id, or "" for every element when a call raised
FetchedIds(elems, raised) ==
    [i \in 1..Len(elems) |->
        [k |-> elems[i].guid, v |-> IF raised THEN <<>> ELSE HostId(elems[i].guid)]]

\* lines 500-504: get_all_elements_fast, and the return when nothing was found
GetAllElementsFast ==
    /\ pc = "get_elements"
    /\ entry = "main"
    /\ \E failing \in SUBSET {host[i].type : i \in 1..Len(host)} :
          /\ elements' = FetchAll(available_element_types, failing)
          /\ fetch_errors' = fetch_errors \cup failing
    /\ IF elements' = <<>>
       THEN ret' = <<FALSE>> /\ pc' = "done"
       ELSE ret' = ret /\ pc' = "get_ids"
    /\ UNCHANGED <<csvVars, wbVars, report, entry, host, existing_ids, analysis, elements_by_type,
                   all_reserved_ids, new_id_mapping, ti, ei, counter, call, hash_seed,
                   prev_mapping, prev_run>>

\* line 507: get_existing_ids_bulk
GetExistingIdsBulk ==
    /\ pc = "get_ids"
    /\ \E raised \in BOOLEAN :
          /\ existing_ids' = FetchedIds(elements, raised)
          /\ fetch_errors' = IF raised THEN fetch_errors \cup {"General_ElementID"}
                             ELSE fetch_errors
    /\ pc' = "analyze"
    /\ UNCHANGED <<csvVars, wbVars, report, ret, entry, host, elements, analysis, elements_by_type,
                   all_reserved_ids, new_id_mapping, ti, ei, counter, call, hash_seed,
                   prev_mapping, prev_run>>

\* lines 515-520: nothing to assign
CheckMapping ==
    /\ pc = "generated"
    /\ entry = "main"
    /\ IF new_id_mapping = <<>>
       THEN ret' = <<TRUE>> /\ pc' = "done"
       ELSE ret' = ret /\ pc' = "assign"
    /\ UNCHANGED <<csvVars, wbVars, fetch_errors, report, entry, host, elements, existing_ids,
                   analysis, elements_by_type, all_reserved_ids, new_id_mapping, ti, ei,
                   counter, call, hash_seed, prev_mapping, prev_run>>

\* the dict assign_ids_super_fast returns
Results(success, denied, errors, failed, total) ==
    [success_count |-> success, permission_denied_count |-> denied, other_errors |-> errors,
     failed_elements |-> failed, total_attempted |-> total]

\* lines 359-367: what the outer except returns
PhaseFailedResults(mapping) == Results(0, 0, Len(mapping), <<>>, Len(mapping))

\* lines 261-274: GetBuiltInPropertyId and the counters; the outer except when it raises
AssignBegin ==
    /\ pc = "assign"
    /\ \E raised \in BOOLEAN :
          IF raised
          THEN /\ assignment_results' = PhaseFailedResults(new_id_mapping)
               /\ outcomes' = [i \in 1..Len(new_id_mapping) |-> "phase_failed"]
               /\ pc' = "report"
               /\ UNCHANGED <<wi, success_count, permission_denied_count, other_errors,
                              failed_elements>>
          ELSE /\ success_count' = 0
               /\ permission_denied_count' = 0
               /\ other_errors' = 0
               /\ failed_elements' = <<>>
               /\ wi' = 1
               /\ pc' = "write"
               /\ UNCHANGED <<assignment_results, outcomes>>
    /\ UNCHANGED <<csvVars, writes, runVars, entry, host, elements, existing_ids, analysis,
                   elements_by_type, all_reserved_ids, new_id_mapping, ti, ei, counter,
                   call, hash_seed, prev_mapping, prev_run>>

\* what one pass of the loop of lines 276-341 can meet
WriteOutcomes ==
    {"success", "permission", "error", "no_response", "exception",
     "interrupt_before", "interrupt_after"}

\* the outcomes in which the host received the call
Issued == WriteOutcomes \ {"interrupt_before"}

\* the outcomes in which the host stored the new id
Applied == {"success", "interrupt_after"}

\* the reason the loop records for a failed element
Reason(outcome) ==
    CASE outcome = "permission" -> "TeamWork permission denied"
      [] outcome = "error" -> "error_msg"
      [] outcome = "no_response" -> "No response from API"
      [] outcome = "exception" -> "Processing error"

\* failed_elements after an outcome
FailedAfter(failed, outcome, element_guid, new_id) ==
    IF outcome \in {"permission", "error", "no_response", "exception"}
    THEN Append(failed, [guid |-> element_guid, new_id |-> new_id, reason |-> Reason(outcome)])
    ELSE failed

\* the host's elements after it stored new_id for element_guid
HostAfterWrite(element_guid, new_id) ==
    [i \in 1..Len(host) |->
        IF host[i].guid = element_guid THEN [host[i] EXCEPT !.id = new_id] ELSE host[i]]

\* the outcomes of line 328: the user's Ctrl+C while an entry is processed
Interrupts == {"interrupt_before", "interrupt_after"}

\* a loop that stays on an entry whose write failed, until the write succeeds
NextIndexRetry(i, outcome) ==
    IF outcome = "success" THEN i + 1 ELSE i

\* lines 276 and 341: the for loop moves to the next entry after every outcome but
\* the interrupt, which leaves the loop
NextIndex(i, outcome) ==
    IF outcome \in Interrupts THEN i ELSE i + 1

\* a loop that is left at the first failed write
LoopPcBreakOnFailure(outcome, i, n) ==
    IF outcome # "success" \/ i = n THEN "assign_return" ELSE "write"

\* a loop that goes on to the next entry after the interrupt
LoopPcIgnoreInterrupt(outcome, i, n) ==
    IF i = n THEN "assign_return" ELSE "write"

\* lines 276, 328-331 and 341: the loop ends after the last entry or at the break of
\* the interrupt handler; every other handler continues with the next entry
LoopPc(outcome, i, n) ==
    IF outcome \in Interrupts \/ i = n THEN "assign_return" ELSE "write"

\* lines 276-341: one mapping entry
WriteElement ==
    /\ pc = "write"
    /\ wi <= Len(new_id_mapping)
    /\ \E outcome \in WriteOutcomes :
          LET element_guid == new_id_mapping[wi].k
              new_id == new_id_mapping[wi].v
          IN  /\ outcomes' = Append(outcomes, outcome)
              /\ writes' = IF outcome \in Issued THEN Append(writes, element_guid) ELSE writes
              /\ host' = IF outcome \in Applied THEN HostAfterWrite(element_guid, new_id)
                         ELSE host
              /\ success_count' = IF outcome = "success" THEN success_count + 1
                                  ELSE success_count
              /\ permission_denied_count' =
                    IF outcome = "permission" THEN permission_denied_count + 1
                    ELSE permission_denied_count
              /\ other_errors' =
                    IF outcome \in {"error", "no_response", "exception"} THEN other_errors + 1
                    ELSE other_errors
              /\ failed_elements' = FailedAfter(failed_elements, outcome, element_guid, new_id)
              /\ wi' = NextIndex(wi, outcome)
              /\ pc' = LoopPc(outcome, wi, Len(new_id_mapping))
    /\ UNCHANGED <<csvVars, assignment_results, runVars, entry, elements, existing_ids, analysis,
                   elements_by_type, all_reserved_ids, new_id_mapping, ti, ei, counter,
                   call, hash_seed, prev_mapping, prev_run>>

\* lines 343-357: the loop is over, by exhaustion or by break
AssignReturn ==
    /\ pc = "assign_return"
    /\ assignment_results' =
          Results(success_count, permission_denied_count, other_errors, failed_elements,
                  Len(new_id_mapping))
    /\ pc' = "report"
    /\ UNCHANGED <<csvVars, wi, success_count, permission_denied_count, other_errors,
                   failed_elements, outcomes, writes, runVars, entry, host, elements,
                   existing_ids, analysis, elements_by_type, all_reserved_ids,
                   new_id_mapping, ti, ei, counter, call, hash_seed, prev_mapping, prev_run>>

\* lines 410-416 and 547: the result line of the report, and the count printed
ResultLine(elems, results) ==
    [all |-> ~(results.permission_denied_count > 0),
     count |-> IF results.permission_denied_count > 0
               THEN Len(elems) - results.permission_denied_count - results.other_errors
               ELSE Len(elems),
     total_unique |-> Len(elems) - results.permission_denied_count - results.other_errors]

\* a return value that looks at the write-back alone
ReturnValueWritesOnly(results, an) == results.success_count > 0

\* line 553: the value returned after the report
ReturnValue(results, an) == results.success_count > 0 \/ an.unique_ids > 0

\* lines 525-558: the report and the return value; when the report file cannot be
\* written (lines 530-531) the outer except returns False
ReportAndReturn ==
    /\ pc = "report"
    /\ \E io_error \in BOOLEAN :
          IF io_error
          THEN /\ report' = report
               /\ ret' = <<FALSE>>
          ELSE /\ report' = ResultLine(elements, assignment_results)
               /\ ret' = <<ReturnValue(assignment_results, analysis)>>
    /\ pc' = "done"
    /\ UNCHANGED <<csvVars, wbVars, fetch_errors, entry, host, elements, existing_ids, analysis,
                   elements_by_type, all_reserved_ids, new_id_mapping, ti, ei, counter,
                   call, hash_seed, prev_mapping, prev_run>>

MaxHostElems == 2

\* the types of the host's elements
HostTypes == {"Wall", "Beam"}

\* the Element IDs the host's elements hold
HostIds ==
    { <<>>, <<"W", "-", "0", "0", "1">>, <<"W", "-", "0", "0", "1", " ">>,
      <<"W", "-", "0", "0", "2">> }

\* the state when assign_unique_ids_to_all_elements is called
InitMain(h) ==
    /\ pc = "get_elements"
    /\ entry = "main"
    /\ host = h
    /\ elements = <<>>
    /\ existing_ids = <<>>
    /\ analysis = NoAnalysis
    /\ elements_by_type = <<>>
    /\ all_reserved_ids = {}
    /\ new_id_mapping = <<>>
    /\ ti = 1
    /\ ei = 1
    /\ counter = CounterStart
    /\ call = "first"
    /\ hash_seed = 0
    /\ prev_mapping = <<>>
    /\ prev_run = <<>>
    /\ InitWriteBack
    /\ project = NoProject
    /\ InitNoExtract
    /\ fetch_errors = {}
    /\ report = <<>>
    /\ ret = <<>>

Init ==
    \E n \in 0..MaxHostElems :
        \E ty \in [1..n -> HostTypes], id \in [1..n -> HostIds] : InitMain(InputOf(n, ty, id))

Next ==
    \/ GetAllElementsFast
    \/ GetExistingIdsBulk
    \/ Analyze
    \/ GenerateBegin
    \/ GenerateType
    \/ GenerateElement
    \/ CheckMapping
    \/ AssignBegin
    \/ WriteElement
    \/ AssignReturn
    \/ ReportAndReturn

Spec == Init /\ [][Next]_vars

\* the run is one sequential Python call: whenever a step is possible, a step is taken
SpecFair == Init /\ [][Next]_vars /\ WF_vars(Next)

(* The script is started again on the host as the first run left it *)

RunAgain ==
    /\ pc = "done"
    /\ entry = "main"
    /\ call = "first"
    /\ call' = "second"
    /\ prev_mapping' = new_id_mapping
    /\ prev_run' = [outcomes |-> outcomes, fetch_errors |-> fetch_errors]
    /\ pc' = "get_elements"
    /\ elements' = <<>>
    /\ existing_ids' = <<>>
    /\ analysis' = NoAnalysis
    /\ elements_by_type' = <<>>
    /\ all_reserved_ids' = {}
    /\ new_id_mapping' = <<>>
    /\ ti' = 1
    /\ ei' = 1
    /\ counter' = CounterStart
    /\ wi' = 1
    /\ success_count' = 0
    /\ permission_denied_count' = 0
    /\ other_errors' = 0
    /\ failed_elements' = <<>>
    /\ assignment_results' = <<>>
    /\ outcomes' = <<>>
    /\ writes' = <<>>
    /\ fetch_errors' = {}
    /\ report' = <<>>
    /\ ret' = <<>>
    /\ UNCHANGED <<csvVars, entry, host, hash_seed>>

NextTwice == Next \/ RunAgain

SpecTwice == Init /\ [][NextTwice]_vars

----------------------------------------------------------------------------
(* 2.ArchiCADMetadataExtractor.py: extract_to_csv *)

\* the characters of the column names below, in ascending order of code point
CodePointOrder ==
    <<" ", "-", ".", "1", "A", "B", "C", "D", "E", "G", "I", "L", "T", "U", "Z", "_", "a", "c", "e", "f", "i", "l", "m", "n", "o", "p", "r", "s", "t", "y">>

Ord(ch) == CHOOSE i \in 1..Len(CodePointOrder) : CodePointOrder[i] = ch

\* a < b for two str values: the comparison sorted() uses
RECURSIVE StrLess(_, _)
StrLess(a, b) ==
    IF b = <<>> THEN FALSE
    ELSE IF a = <<>> THEN TRUE
    ELSE IF Head(a) # Head(b) THEN Ord(Head(a)) < Ord(Head(b))
    ELSE StrLess(Tail(a), Tail(b))

\* a header whose columns are listed in descending order
RECURSIVE SortedDescending(_)
SortedDescending(S) ==
    IF S = {} THEN <<>>
    ELSE LET m == CHOOSE x \in S : \A y \in S \ {x} : StrLess(y, x)
         IN  <<m>> \o SortedDescending(S \ {m})

\* sorted(S) for a set of str values
RECURSIVE Sorted(_)
Sorted(S) ==
    IF S = {} THEN <<>>
    ELSE LET m == CHOOSE x \in S : \A y \in S \ {x} : StrLess(x, y)
         IN  <<m>> \o Sorted(S \ {m})

Element_GUID == <<"E", "l", "e", "m", "e", "n", "t", "_", "G", "U", "I", "D">>

Element_Type == <<"E", "l", "e", "m", "e", "n", "t", "_", "T", "y", "p", "e">>

\* the two leading columns of the file
FixedColumns == <<Element_GUID, Element_Type>>

\* the element types the extractor asks of the host
element_types ==
    <<"Wall", "Slab", "Beam", "Column", "Roof", "CurtainWall", "Stair", "Railing",
      "Door", "Window", "Skylight", "Zone", "Mesh", "Morph", "Shell", "Object">>

\* system_name.replace(' ', '_').replace('-', '_').replace('.', '_')
CleanName(system_name) ==
    [i \in 1..Len(system_name) |->
        IF system_name[i] \in {" ", "-", "."} THEN "_" ELSE system_name[i]]

\* f'Classification_{clean_name}'
ClassificationColumn(system_name) ==
    <<"C", "l", "a", "s", "s", "i", "f", "i", "c", "a", "t", "i", "o", "n", "_">> \o CleanName(system_name)

\* the two entries every element's property dict starts with
BasicData(elem_data) ==
    <<[k |-> Element_Type, v |-> elem_data.type],
      [k |-> Element_GUID, v |-> ToString(elem_data.guid)]>>

\* what the host gives for one property of one element: a value, no value, or
\* something the code cannot read
PropertyOutcomes == {"value", "undefined", "skip"}

PropertyText(outcome) == IF outcome = "value" THEN "v" ELSE "<Undefined>"

\* the loop over one element's property values, from the j-th on
RECURSIVE WithProperties(_, _, _, _)
WithProperties(d, names, outs, j) ==
    IF j > Len(names) THEN d
    ELSE WithProperties(IF outs[j] = "skip" THEN d
                        ELSE DictSet(d, names[j], PropertyText(outs[j])),
                        names, outs, j + 1)

\* get_all_properties_bulk's result: {} when the property discovery raised, the basic
\* data when the bulk retrieval raised, else the basic data and the properties read
PropertiesBulk(elems, how, outs) ==
    IF how = "discovery_failed" THEN <<>>
    ELSE [i \in 1..Len(elems) |->
            [k |-> elems[i].guid,
             v |-> IF how = "bulk_failed" THEN BasicData(elems[i])
                   ELSE WithProperties(BasicData(elems[i]), project.properties, outs[i], 1)]]

\* what the host gives for one element in one classification system
ClassificationOutcomes == {"item", "no_item", "skip"}

\* the loop over one element's classifications, from the j-th system on
RECURSIVE WithClassifications(_, _, _, _)
WithClassifications(d, systems, outs, j) ==
    IF j > Len(systems) THEN d
    ELSE WithClassifications(IF outs[j] = "skip" THEN d
                             ELSE DictSet(d, ClassificationColumn(systems[j]),
                                          IF outs[j] = "item" THEN "item" ELSE ""),
                             systems, outs, j + 1)

\* get_classifications_fast's result: {} without classification systems, an empty
\* dict per element when a call raised, else the classifications read
ClassificationsFast(elems, raised, outs) ==
    IF ~raised /\ project.systems = <<>> THEN <<>>
    ELSE [i \in 1..Len(elems) |->
            [k |-> elems[i].guid,
             v |-> IF raised THEN <<>>
                   ELSE WithClassifications(<<>>, project.systems, outs[i], 1)]]

\* all_columns
AllColumns(pd, cd) ==
    {Element_GUID, Element_Type}
        \cup UNION {DictKeys(pd[i].v) : i \in 1..Len(pd)}
        \cup UNION {DictKeys(cd[i].v) : i \in 1..Len(cd)}

\* sorted_columns
SortedColumns(pd, cd) ==
    FixedColumns \o Sorted(AllColumns(pd, cd) \ {Element_GUID, Element_Type})

\* d.update(other)
RECURSIVE DictUpdate(_, _)
DictUpdate(d, other) ==
    IF other = <<>> THEN d
    ELSE DictUpdate(DictSet(d, Head(other).k, Head(other).v), Tail(other))

\* row_data of one element
RowData(pd, cd, guid) ==
    DictUpdate(IF DictHas(pd, guid) THEN DictGet(pd, guid) ELSE <<>>,
               IF DictHas(cd, guid) THEN DictGet(cd, guid) ELSE <<>>)

\* complete_row of one element
CompleteRow(columns, row_data) ==
    [j \in 1..Len(columns) |->
        [k |-> columns[j],
         v |-> IF DictHas(row_data, columns[j]) THEN DictGet(row_data, columns[j]) ELSE ""]]

\* step 1: get_all_elements_fast, and the return when nothing was found
ExtractGetElements ==
    /\ pc = "x_get_elements"
    /\ entry = "extract"
    /\ \E failing \in SUBSET {host[i].type : i \in 1..Len(host)} :
          /\ elements' = FetchAll(element_types, failing)
          /\ fetch_errors' = fetch_errors \cup failing
    /\ IF elements' = <<>>
       THEN ret' = <<FALSE>> /\ pc' = "done"
       ELSE ret' = ret /\ pc' = "x_properties"
    /\ UNCHANGED <<csvVars, wbVars, report, entry, host, existing_ids, analysis,
                   elements_by_type, all_reserved_ids, new_id_mapping, ti, ei, counter,
                   call, hash_seed, prev_mapping, prev_run>>

\* step 2: get_all_properties_bulk
ExtractGetProperties ==
    /\ pc = "x_properties"
    /\ \E how \in {"ok", "discovery_failed", "bulk_failed"} :
          /\ \E outs \in [1..Len(elements) -> [1..Len(project.properties) -> PropertyOutcomes]] :
                /\ how # "ok" => \A i \in 1..Len(elements) :
                                     \A j \in 1..Len(project.properties) : outs[i][j] = "skip"
                /\ properties_data' = PropertiesBulk(elements, how, outs)
          /\ fetch_errors' = IF how = "ok" THEN fetch_errors ELSE fetch_errors \cup {how}
    /\ pc' = "x_classifications"
    /\ UNCHANGED <<project, classifications_data, sorted_columns, csv_rows, wbVars, report,
                   ret, entry, host, elements, existing_ids, analysis, elements_by_type,
                   all_reserved_ids, new_id_mapping, ti, ei, counter, call, hash_seed,
                   prev_mapping, prev_run>>

\* step 3: get_classifications_fast
ExtractGetClassifications ==
    /\ pc = "x_classifications"
    /\ \E raised \in BOOLEAN :
          /\ \E outs \in [1..Len(elements) -> [1..Len(project.systems) -> ClassificationOutcomes]] :
                /\ raised => \A i \in 1..Len(elements) :
                                 \A j \in 1..Len(project.systems) : outs[i][j] = "skip"
                /\ classifications_data' = ClassificationsFast(elements, raised, outs)
          /\ fetch_errors' = IF raised THEN fetch_errors \cup {"classifications"}
                             ELSE fetch_errors
    /\ pc' = "x_write"
    /\ UNCHANGED <<project, properties_data, sorted_columns, csv_rows, wbVars, report, ret,
                   entry, host, elements, existing_ids, analysis, elements_by_type,
                   all_reserved_ids, new_id_mapping, ti, ei, counter, call, hash_seed,
                   prev_mapping, prev_run>>

\* step 4: the header and one row per element; row_data.update changes the dict held
\* by properties_data; an error of the file system ends the call with False
ExtractWrite ==
    /\ pc = "x_write"
    /\ \E io_error \in BOOLEAN :
          IF io_error
          THEN /\ ret' = <<FALSE>>
               /\ UNCHANGED <<properties_data, sorted_columns, csv_rows>>
          ELSE /\ sorted_columns' = SortedColumns(properties_data, classifications_data)
               /\ csv_rows' =
                     [i \in 1..Len(elements) |->
                         CompleteRow(sorted_columns',
                                     RowData(properties_data, classifications_data,
                                             elements[i].guid))]
               /\ properties_data' =
                     [i \in 1..Len(properties_data) |->
                         [k |-> properties_data[i].k,
                          v |-> RowData(properties_data, classifications_data,
                                        properties_data[i].k)]]
               /\ ret' = <<TRUE>>
    /\ pc' = "done"
    /\ UNCHANGED <<project, classifications_data, wbVars, fetch_errors, report, entry, host,
                   elements, existing_ids, analysis, elements_by_type, all_reserved_ids,
                   new_id_mapping, ti, ei, counter, call, hash_seed, prev_mapping, prev_run>>

\* the host projects: their property definitions and the names of their classification
\* systems, both in the host's order
Projects ==
    { NoProject,
      [properties |-> <<<<"L", "a", "y", "e", "r">>, <<"A", "r", "e", "a">>>>, systems |-> <<>>],
      [properties |-> <<<<"E", "l", "e", "m", "e", "n", "t", "_", "T", "y", "p", "e">>>>, systems |-> <<<<"A", "-", "B">>, <<"A", " ", "B">>>>],
      [properties |-> <<<<"L", "a", "y", "e", "r">>, <<"A", "r", "e", "a">>>>, systems |-> <<<<"Z", ".", "1">>>>] }

\* the state when extract_to_csv is called
InitExtract(h, p) ==
    /\ pc = "x_get_elements"
    /\ entry = "extract"
    /\ host = h
    /\ elements = <<>>
    /\ existing_ids = <<>>
    /\ analysis = NoAnalysis
    /\ elements_by_type = <<>>
    /\ all_reserved_ids = {}
    /\ new_id_mapping = <<>>
    /\ ti = 1
    /\ ei = 1
    /\ counter = CounterStart
    /\ call = "first"
    /\ hash_seed = 0
    /\ prev_mapping = <<>>
    /\ prev_run = <<>>
    /\ InitWriteBack
    /\ project = p
    /\ InitNoExtract
    /\ fetch_errors = {}
    /\ report = <<>>
    /\ ret = <<>>

InitCsv ==
    \E n \in 0..MaxHostElems :
        \E ty \in [1..n -> HostTypes], p \in Projects :
            InitExtract(InputOf(n, ty, [i \in 1..n |-> <<>>]), p)

NextCsv ==
    \/ ExtractGetElements
    \/ ExtractGetProperties
    \/ ExtractGetClassifications
    \/ ExtractWrite

SpecCsv == InitCsv /\ [][NextCsv]_vars

----------------------------------------------------------------------------
(* What the properties speak of, read off the state without the code's own helpers *)

Guids == {elements[i].guid : i \in 1..Len(elements)}

TypeOf(g) == elements[CHOOSE i \in 1..Len(elements) : elements[i].guid = g].type

\* the whitespace-trimmed existing identifier of element g, as given to the reconciler
TrimmedExisting(g) == Strip(DictGet(existing_ids, g))

Holders(s) == {g \in Guids : TrimmedExisting(g) = s}

IsAbsent(g) == TrimmedExisting(g) = <<>>

IsUniqueHolder(g) == ~IsAbsent(g) /\ Holders(TrimmedExisting(g)) = {g}

IsDuplicateHolder(g) == ~IsAbsent(g) /\ Holders(TrimmedExisting(g)) # {g}

InMapping(g) == DictHas(new_id_mapping, g)

HasFinalId(g) == InMapping(g) \/ ~IsAbsent(g)

FinalId(g) == IF InMapping(g) THEN DictGet(new_id_mapping, g) ELSE TrimmedExisting(g)

DigitValue(ch) == CHOOSE d \in 0..9 : DigitChar[d + 1] = ch

\* int(digits)
RECURSIVE ParseInt(_)
ParseInt(digits) ==
    IF digits = <<>> THEN 0
    ELSE 10 * ParseInt(SubSeq(digits, 1, Len(digits) - 1)) + DigitValue(digits[Len(digits)])

\* the text after "<prefix>-" in a generated identifier
SuffixText(new_id, prefix) == SubSeq(new_id, Len(prefix) + 2, Len(new_id))

SuffixNumber(new_id, prefix) == ParseInt(SuffixText(new_id, prefix))

----------------------------------------------------------------------------
(* C1: after analyze_existing_ids and generate_new_ids_for_problem_elements, *)
(* no two elements end with the same final identifier (a mapping value, or  *)
(* the trimmed identifier of an element that is not in the mapping), also   *)
(* across element types.                                                    *)
C1_FinalIdsDistinct ==
    pc = "generated" =>
        \A g1, g2 \in Guids :
            (g1 # g2 /\ HasFinalId(g1) /\ HasFinalId(g2)) => FinalId(g1) # FinalId(g2)

\* a kept identifier next to new identifiers of two different types
C1_Witness ==
    /\ pc = "generated"
    /\ \E g1, g2, g3 \in Guids :
          /\ ~InMapping(g1) /\ IsUniqueHolder(g1)
          /\ InMapping(g2) /\ InMapping(g3)
          /\ TypeOf(g2) # TypeOf(g3)

(* C3: every element whose trimmed identifier is empty or shared with       *)
(* another element is in the mapping, and its new identifier is the final   *)
(* identifier of no other element.                                          *)
C3_ProblemElementsMapped ==
    pc = "generated" =>
        \A g \in Guids :
            (IsAbsent(g) \/ IsDuplicateHolder(g)) =>
                /\ InMapping(g)
                /\ \A h \in Guids \ {g} : HasFinalId(h) => FinalId(h) # DictGet(new_id_mapping, g)

\* an absent identifier and a shared one (by trimming) in one input
C3_Witness ==
    /\ pc = "generated"
    /\ \E g1, g2, g3 \in Guids :
          /\ IsAbsent(g1) /\ InMapping(g1)
          /\ g2 # g3 /\ IsDuplicateHolder(g2) /\ IsDuplicateHolder(g3)
          /\ DictGet(existing_ids, g2) # DictGet(existing_ids, g3)
          /\ InMapping(g2) /\ InMapping(g3)

\* the numeric suffixes of the identifiers assigned so far to the type at index t, in list order
AssignedSuffixes(t) ==
    LET assigned == SelectSeq(elements_by_type[t].v, LAMBDA e : InMapping(e.guid))
    IN  [i \in 1..Len(assigned) |->
            SuffixNumber(DictGet(new_id_mapping, assigned[i].guid), Prefix(elements_by_type[t].k))]

C8_SuffixesIncrease ==
    \A t \in 1..Len(elements_by_type) :
        \A i, j \in 1..Len(AssignedSuffixes(t)) :
            i < j => AssignedSuffixes(t)[i] < AssignedSuffixes(t)[j]

C8_CounterStep == pc = "gen_elem" => counter' >= counter

(* C8: for each type, the numeric suffixes of the identifiers generated for *)
(* its elements, in input order, are strictly increasing, and the type's    *)
(* counter never decreases while the type's elements are processed.         *)
C8_CounterMonotone == []C8_SuffixesIncrease /\ [][C8_CounterStep]_vars

\* two elements of one type whose suffixes are not consecutive: the counter skipped a reserved identifier
C8_Witness ==
    /\ pc = "generated"
    /\ \E t \in 1..Len(elements_by_type) :
          /\ Len(AssignedSuffixes(t)) >= 2
          /\ AssignedSuffixes(t)[2] > AssignedSuffixes(t)[1] + 1

\* the identifiers held by two or more elements
DuplicatedIds == {TrimmedExisting(g) : g \in {h \in Guids : IsDuplicateHolder(h)}}

\* the reconciler was given the input of spec.md section 8
IsExample ==
    elements = ElementsOf(ExampleInput) /\ existing_ids = ExistingIdsOf(ExampleInput)

LastAssigned == new_id_mapping[Len(new_id_mapping)]

\* the counter value that the identifier assigned last was made from
LastCounter == counter - 1

(* C10: when 1000 or more elements of one type need new identifiers, an     *)
(* identifier made from a counter above 999 carries the whole counter value *)
(* in 4 or more digits, one made from a counter below 100 is zero-padded to *)
(* exactly 3 digits, and no generated identifier equals another generated   *)
(* or kept identifier.                                                      *)
C10_NoTruncation ==
    (pc \in {"gen_elem", "gen_type", "generated"} /\ new_id_mapping # <<>>) =>
        LET suffix == SuffixText(LastAssigned.v, Prefix(TypeOf(LastAssigned.k)))
        IN  /\ ParseInt(suffix) = LastCounter
            /\ LastCounter > 999 => Len(suffix) >= 4
            /\ LastCounter < 100 => Len(suffix) = 3
            /\ \A i \in 1..(Len(new_id_mapping) - 1) : new_id_mapping[i].v # LastAssigned.v
            /\ LET mapped == DictKeys(new_id_mapping)
               IN  \A i \in 1..Len(existing_ids) :
                       existing_ids[i].k \notin mapped =>
                           Strip(existing_ids[i].v) # LastAssigned.v

\* the counter passed 999 and skipped the kept identifier "W-1000"
C10_Witness ==
    /\ pc = "generated"
    /\ Len(new_id_mapping) >= 1000
    /\ ~InMapping(1)
    /\ TrimmedExisting(1) = <<"W", "-", "1", "0", "0", "0">>
    /\ LastAssigned.v = <<"W", "-", "1", "0", "0", "1">>

\* the data fetch is over: existing_ids holds the reconciler's input
Fetched == pc \notin {"get_elements", "get_ids"}

(* C2: an element whose trimmed existing identifier is non-empty and held   *)
(* by no other element of the input is never put in the mapping, and the    *)
(* host receives no write for it.                                           *)
C2_UniqueKept ==
    Fetched =>
        \A g \in Guids :
            IsUniqueHolder(g) => (~InMapping(g) /\ g \notin SeqToSet(writes))

\* the run is over, it wrote to another element and left a unique holder alone
C2_Witness ==
    /\ pc = "done"
    /\ writes # <<>>
    /\ \E g \in Guids :
          /\ IsUniqueHolder(g)
          /\ DictGet(existing_ids, g) # TrimmedExisting(g)
          /\ g \notin SeqToSet(writes)

(* C4: if a host call of the data fetch raised (GetElementsByType for some  *)
(* type, or the fetch of the existing identifiers), the run issues no       *)
(* SetPropertyValuesOfElements call.                                        *)
C4_NoWriteAfterFetchError == fetch_errors # {} => writes = <<>>

\* the mapping entries whose write did not succeed
FailedWrites ==
    {i \in 1..Len(outcomes) :
        outcomes[i] \in {"permission", "error", "no_response", "exception", "phase_failed"}}

IsListed(i) ==
    \E n \in 1..Len(assignment_results.failed_elements) :
        LET f == assignment_results.failed_elements[n]
        IN  f.guid = new_id_mapping[i].k /\ f.new_id = new_id_mapping[i].v /\ f.reason # ""

(* C5: when assign_ids_super_fast returns, every mapping entry whose write  *)
(* did not succeed (host failure, empty response, exception, or a failure   *)
(* of the whole phase) is listed in failed_elements with its guid, the new  *)
(* identifier and a reason, and no failure is counted without being listed. *)
C5_FailuresListed ==
    assignment_results # <<>> =>
        /\ \A i \in FailedWrites : IsListed(i)
        /\ assignment_results.permission_denied_count + assignment_results.other_errors
              = Len(assignment_results.failed_elements)

\* the elements found whose Element ID in the host no other element of the host holds
HostUnique ==
    {g \in Guids : \A i \in 1..Len(host) : host[i].guid # g => host[i].id # HostId(g)}

\* a run whose fetch raised nothing and whose write-back loop was not interrupted
PlainRun ==
    /\ fetch_errors = {}
    /\ \A i \in 1..Len(outcomes) : outcomes[i] \notin {"interrupt_before", "interrupt_after"}

(* C6: after the write-back, with any combination of per-element successes  *)
(* and failures, at least total - permission_denied_count - other_errors    *)
(* elements hold an identifier that no other element holds: the count of    *)
(* the run's result line.                                                   *)
C6_ReportedUniqueCount ==
    (pc = "done" /\ report # <<>> /\ PlainRun) => Cardinality(HostUnique) >= report.total_unique

\* the mapping entries for which the host received a SetPropertyValuesOfElements call
IssuedEntries == {i \in 1..Len(outcomes) : outcomes[i] \in Issued}

(* C11: within one run the write-back issues at most one write call per     *)
(* mapping entry: no element is written twice and a failed write is not     *)
(* retried, whatever the outcome of that or any other write.                *)
C11_AtMostOneWritePerEntry ==
    /\ \A i, j \in 1..Len(writes) : i # j => writes[i] # writes[j]
    /\ \A i \in 1..Len(writes) : DictHas(new_id_mapping, writes[i])
    /\ Len(writes) <= Len(new_id_mapping)
    /\ Len(outcomes) <= Len(new_id_mapping)

\* the run is over: the first entry's write failed and the second entry was written after it
C11_Witness ==
    /\ pc = "done"
    /\ Len(outcomes) = 2
    /\ outcomes[1] \in {"permission", "error", "no_response", "exception"}
    /\ outcomes[2] = "success"
    /\ Len(writes) = 2

\* the guids of the first n mapping entries whose pass through the loop reached the host, in mapping order
IssuedKeys(n) ==
    LET idx == SelectSeq([i \in 1..n |-> i], LAMBDA i : outcomes[i] \in Issued)
    IN  [j \in 1..Len(idx) |-> new_id_mapping[idx[j]].k]

\* the write-back loop ran and no Ctrl+C arrived
LoopUninterrupted ==
    \A i \in 1..Len(outcomes) : outcomes[i] \notin Interrupts \cup {"phase_failed"}

C12_InMappingOrder ==
    LoopUninterrupted => writes = IssuedKeys(Len(outcomes))

C12_AllAttempted ==
    (pc \in {"assign_return", "report", "done"} /\ LoopUninterrupted) =>
        /\ Len(outcomes) = Len(new_id_mapping)
        /\ writes = IssuedKeys(Len(new_id_mapping))

C12_LoopEnds ==
    (pc = "write") ~>
        (pc = "assign_return" /\ (LoopUninterrupted => Len(outcomes) = Len(new_id_mapping)))

(* C12: a failed write (permission denied, another host error, an empty     *)
(* response, an exception) does not stop the write-back loop: unless the    *)
(* user interrupts, the entries are attempted in mapping order, the loop    *)
(* ends, and when it has ended every mapping entry has been attempted.      *)
C12_FailureDoesNotStopLoop ==
    []C12_InMappingOrder /\ []C12_AllAttempted /\ C12_LoopEnds

\* the loop is over without an interrupt: both entries were attempted and both writes failed
C12_Witness ==
    /\ pc = "assign_return"
    /\ Len(new_id_mapping) = 2
    /\ outcomes[1] \in {"permission", "error", "no_response", "exception"}
    /\ outcomes[2] \in {"permission", "error", "no_response", "exception"}
    /\ outcomes[1] # outcomes[2]
    /\ Len(writes) = 2

\* the columns after the two leading ones
OtherColumns == SubSeq(sorted_columns, Len(FixedColumns) + 1, Len(sorted_columns))

\* every column name found in the property and classification data
NamesInData ==
    UNION {DictKeys(properties_data[i].v) : i \in 1..Len(properties_data)}
        \cup UNION {DictKeys(classifications_data[i].v) : i \in 1..Len(classifications_data)}

(* C13: the header of the file is Element_GUID, Element_Type, then every    *)
(* other column name of the property and classification data, in strictly  *)
(* ascending order (so no name is repeated); being fixed by the set of the  *)
(* names alone, it does not depend on the order in which elements or        *)
(* properties were fetched.                                                 *)
C13_HeaderSorted ==
    sorted_columns # <<>> =>
        /\ SubSeq(sorted_columns, 1, Len(FixedColumns)) = FixedColumns
        /\ SeqToSet(OtherColumns) = NamesInData \ SeqToSet(FixedColumns)
        /\ \A i, j \in 1..Len(OtherColumns) :
              i < j => StrLess(OtherColumns[i], OtherColumns[j])

\* the file is written: the host listed Layer before Area, and the header holds both
\* and a classification column between them
C13_Witness ==
    /\ pc = "done"
    /\ Len(project.properties) = 2
    /\ StrLess(project.properties[2], project.properties[1])
    /\ Len(OtherColumns) = 3
    /\ OtherColumns[2] = ClassificationColumn(project.systems[1])

\* one element receives its identifier: with P the prefix of its type and C the number
\* read off the identifier, the identifier is P-C, C is not below the counter, P-C was
\* not reserved and every candidate from the counter up to C was, P-C is reserved
\* afterwards and the counter stands at C + 1
C14_Step ==
    pc = "gen_elem" =>
        LET g == elements_by_type[ti].v[ei].guid
            P == Prefix(elements_by_type[ti].k)
            id == DictGet(new_id_mapping', g)
            C == SuffixNumber(id, P)
        IN  /\ DictHas(new_id_mapping', g)
            /\ SubSeq(id, 1, Len(P) + 1) = P \o <<"-">>
            /\ id = Candidate(P, C)
            /\ C >= counter
            /\ id \notin all_reserved_ids
            /\ \A c \in counter..(C - 1) : Candidate(P, c) \in all_reserved_ids
            /\ all_reserved_ids' = all_reserved_ids \cup {id}
            /\ counter' = C + 1

(* C14: each element that needs a new identifier receives P-C, P the prefix *)
(* of its type and C the smallest counter value not below the type's        *)
(* current counter whose candidate is not reserved at that moment; the      *)
(* candidate is then reserved and the type's counter continues from C + 1.  *)
C14_SmallestFreeCandidate == [][C14_Step]_vars

\* the first identifier of a type skipped a reserved one and the second continued from it
C14_Witness ==
    /\ pc = "generated"
    /\ \E t \in 1..Len(elements_by_type) :
          /\ Len(AssignedSuffixes(t)) >= 2
          /\ AssignedSuffixes(t)[1] > CounterStart
          /\ AssignedSuffixes(t)[2] = AssignedSuffixes(t)[1] + 1

\* the loops of generate_new_ids_for_problem_elements are running or have run
InGeneration ==
    pc \in {"gen_type", "gen_elem"} \/ (pc = "generated" /\ new_id_mapping # <<>>)

\* the identifiers assigned so far
AssignedIds == {new_id_mapping[i].v : i \in 1..Len(new_id_mapping)}

\* the trimmed identifiers held by exactly one element of the whole collection
UniqueExisting == {TrimmedExisting(g) : g \in {h \in Guids : IsUniqueHolder(h)}}

C15_ReservedIs == InGeneration => all_reserved_ids = UniqueExisting \cup AssignedIds

C15_ValuesDistinct ==
    \A i, j \in 1..Len(new_id_mapping) : i # j => new_id_mapping[i].v # new_id_mapping[j].v

C15_Step ==
    /\ pc \in {"gen_type", "gen_elem"} => all_reserved_ids \subseteq all_reserved_ids'
    /\ pc = "gen_elem" =>
          DictGet(new_id_mapping', elements_by_type[ti].v[ei].guid) \notin all_reserved_ids

IsUnmappedType(element_type) == ~DictHas(element_prefixes, element_type)

\* GEN-ddd: the fallback prefix, a hyphen, and three or more digits
HasFallbackPrefix(new_id) ==
    /\ Len(new_id) >= 7
    /\ SubSeq(new_id, 1, 4) = <<"G", "E", "N", "-">>
    /\ \A i \in 5..Len(new_id) : \E d \in 1..Len(DigitChar) : DigitChar[d] = new_id[i]

\* a prefix is a non-empty text without a hyphen
HasPrefixForm(prefix) == prefix # <<>> /\ \A i \in 1..Len(prefix) : prefix[i] # "-"

(* C16: classification and generation are total: for every identifier      *)
(* string and every type tag of the input, also a type absent from the      *)
(* prefix table, the reconciler is never left without a next step before it *)
(* has returned (each loop stands on an existing type and element, and the  *)
(* type has a prefix), and when it has returned every element of an         *)
(* unmapped type that needed a new identifier holds one with the fallback   *)
(* prefix GEN.                                                              *)
C16_TotalWithFallback ==
    /\ pc \in {"analyze", "generate", "gen_type", "gen_elem", "generated"}
    /\ pc = "gen_type" => ti \in 1..Len(elements_by_type)
    /\ pc = "gen_elem" =>
          /\ ti \in 1..Len(elements_by_type)
          /\ ei \in 1..Len(elements_by_type[ti].v)
          /\ HasPrefixForm(Prefix(elements_by_type[ti].k))
    /\ pc = "generated" =>
          \A g \in Guids :
              (IsUnmappedType(TypeOf(g)) /\ (IsAbsent(g) \/ IsDuplicateHolder(g))) =>
                  (InMapping(g) /\ HasFallbackPrefix(DictGet(new_id_mapping, g)))

\* the reconciler returned: an element of an unmapped type without an identifier and
\* one of an unmapped type with a shared identifier both received a GEN identifier
C16_Witness ==
    /\ pc = "generated"
    /\ \E g1, g2 \in Guids :
          /\ IsUnmappedType(TypeOf(g1)) /\ IsAbsent(g1)
          /\ IsUnmappedType(TypeOf(g2)) /\ IsDuplicateHolder(g2)
          /\ HasFallbackPrefix(DictGet(new_id_mapping, g1))
          /\ HasFallbackPrefix(DictGet(new_id_mapping, g2))

\* the numbers of the mapping entries during which the user interrupted the loop
InterruptedAt == {k \in 1..Len(outcomes) : outcomes[k] \in Interrupts}

C17_NothingAfterInterrupt ==
    \A k \in InterruptedAt :
        /\ Len(outcomes) = k
        /\ \A j \in (k + 1)..Len(new_id_mapping) : new_id_mapping[j].k \notin SeqToSet(writes)

C17_NoRollback ==
    \A i \in 1..Len(outcomes) :
        outcomes[i] = "success" => HostId(new_id_mapping[i].k) = new_id_mapping[i].v

C17_Step ==
    /\ pc \in {"assign", "write", "assign_return", "report"} => new_id_mapping' = new_id_mapping
    /\ InterruptedAt # {} => (host' = host /\ writes' = writes)

(* C17: when the user interrupts the write-back loop during the k-th        *)
(* mapping entry, no entry after the k-th is written to the host and the    *)
(* host changes no more; every identifier written successfully stays in the *)
(* host (no rollback); no step of the write-back, whatever its outcome,     *)
(* changes the mapping.                                                     *)
C17_InterruptStopsWrites ==
    []C17_NothingAfterInterrupt /\ []C17_NoRollback /\ [][C17_Step]_vars

\* the run is over: the user interrupted during the first of two entries, after the
\* host had stored its identifier; the second entry was never written
C17_Witness ==
    /\ pc = "done"
    /\ Len(new_id_mapping) = 2
    /\ outcomes = <<"interrupt_after">>
    /\ HostId(new_id_mapping[1].k) = new_id_mapping[1].v
    /\ HostId(new_id_mapping[2].k) # new_id_mapping[2].v
    /\ writes = <<new_id_mapping[1].k>>

(* C18: whenever assign_ids_super_fast has returned (after the last entry,  *)
(* after a user interrupt, or after a failure of the whole phase), the      *)
(* counts of its result add up: success_count + permission_denied_count +   *)
(* other_errors = total_attempted.                                          *)
C18_CountsAddUp ==
    assignment_results # <<>> =>
        assignment_results.success_count + assignment_results.permission_denied_count
            + assignment_results.other_errors = assignment_results.total_attempted

(* C19: the report says 'Result: All N elements now have unique IDs' only   *)
(* if every write-back attempt succeeded: no permission denial, no other    *)
(* error, and no mapping entry left without a successful write.             *)
C19_AllOnlyIfAllSucceeded ==
    (report # <<>> /\ report.all) =>
        /\ assignment_results.permission_denied_count = 0
        /\ assignment_results.other_errors = 0
        /\ Len(outcomes) = Len(new_id_mapping)
        /\ \A i \in 1..Len(outcomes) : outcomes[i] = "success"

\* the previous run wrote back a mapping and every write succeeded
PrevAllSucceeded ==
    /\ call = "second"
    /\ prev_mapping # <<>>
    /\ Len(prev_run.outcomes) = Len(prev_mapping)
    /\ \A i \in 1..Len(prev_mapping) : prev_run.outcomes[i] = "success"

\* the second run, once it has classified, found every element unique; it has nothing
\* to assign and has written nothing
SecondRunIdle ==
    /\ analysis # NoAnalysis =>
          /\ analysis.unique_ids = analysis.total_elements
          /\ analysis.elements_needing_new_ids = {}
    /\ new_id_mapping = <<>>
    /\ writes = <<>>

(* C20: idempotence: if the write-back of a run succeeded for every entry   *)
(* of its mapping, a second run on the host as the first left it            *)
(* classifies every element as unique, produces an empty mapping and        *)
(* issues no write.                                                         *)
C20_SecondRunIdle == PrevAllSucceeded => SecondRunIdle

\* the i-th data row of the file names the i-th fetched element
RowNamesElement(i) ==
    /\ DictHas(csv_rows[i], Element_GUID)
    /\ DictGet(csv_rows[i], Element_GUID) = ToString(elements[i].guid)
    /\ DictHas(csv_rows[i], Element_Type)
    /\ DictGet(csv_rows[i], Element_Type) = elements[i].type

(* C21: whenever extract_to_csv has written the file, the file holds        *)
(* exactly one data row per fetched element, in fetch order, and the row's  *)
(* Element_GUID and Element_Type columns hold that element's GUID and type, *)
(* also when property discovery, bulk property retrieval or classification  *)
(* retrieval failed.                                                        *)
C21_OneRowPerElement ==
    sorted_columns # <<>> =>
        /\ Len(csv_rows) = Len(elements)
        /\ \A i \in 1..Len(csv_rows) : RowNamesElement(i)

\* the host reported success for at least one write of the run
SomeWriteSucceeded == \E i \in 1..Len(outcomes) : outcomes[i] = "success"

\* at least one fetched element holds an identifier that no other fetched element holds
SomeIdUnique == \E g \in Guids : IsUniqueHolder(g)

\* the run got as far as the report and the report file was written
ReportWritten == report # <<>>

C22_NoElements == elements = <<>> => (ret = <<FALSE>> /\ writes = <<>>)

C22_EmptyMapping ==
    (elements # <<>> /\ new_id_mapping = <<>>) => (ret = <<TRUE>> /\ writes = <<>>)

(* C22 as stated: assign_unique_ids_to_all_elements returns False and       *)
(* issues no write when no elements are found; it returns True and issues   *)
(* no write when the mapping is empty; otherwise it returns True if and     *)
(* only if at least one write-back succeeded or at least one existing       *)
(* identifier was unique.                                                   *)
C22_ReturnValue ==
    pc = "done" =>
        /\ C22_NoElements
        /\ C22_EmptyMapping
        /\ (elements # <<>> /\ new_id_mapping # <<>>) =>
              ret = <<SomeWriteSucceeded \/ SomeIdUnique>>

(* C22 amended: as above, except that in the third case the value is True   *)
(* if and only if a write-back succeeded or an existing identifier was      *)
(* unique only when the report file was written; when writing the report    *)
(* raised, the function returns False whatever the write-back did.          *)
C22_ReturnValueUnlessReportFails ==
    pc = "done" =>
        /\ C22_NoElements
        /\ C22_EmptyMapping
        /\ (elements # <<>> /\ new_id_mapping # <<>>) =>
              IF ReportWritten THEN ret = <<SomeWriteSucceeded \/ SomeIdUnique>>
              ELSE ret = <<FALSE>>

\* the run is over: a write succeeded and another element kept its unique identifier,
\* the report file could not be written, and the function returned False
C22_Witness ==
    /\ pc = "done"
    /\ new_id_mapping # <<>>
    /\ SomeWriteSucceeded
    /\ SomeIdUnique
    /\ ~ReportWritten
    /\ ret = <<FALSE>>

====
